---- MODULE Spec2Model ----
(***************************************************************************)
(* git-diff-viewer: the unified-diff parser of server/src/git.ts           *)
(* (GitService.parseDiff and GitService.parseFileBlock), getDiff with the  *)
(* diff it writes for untracked files, getFileContent, the comment store   *)
(* of server/src/comments.ts behind the routes of server/src/index.ts, and *)
(* the useMigration hook of the client.                                    *)
(*                                                                         *)
(* Text is a TLA+ string; a character is a string of length 1.  Positions  *)
(* are 1-based here and 0-based in the source.  A JavaScript value that    *)
(* may be null or undefined is a sequence of length 0 (absent) or 1.       *)
(***************************************************************************)
EXTENDS Integers, Sequences, FiniteSets, TLC

VARIABLES
  input,      \* how the text under parse was written: [lead, segments]
  diffText,   \* parseDiff's argument
  pc,         \* "ready", inside parseDiff ("blocks", "lines"), "returned", "threw"
  files,      \* parseDiff's `files`, its result once returned
  sourceDir,  \* this.sourceDir of the GitService the call is made on
  fileBlocks, \* parseDiff's `fileBlocks`
  blockIdx,   \* the place of `block` in fileBlocks
  lines,      \* parseFileBlock's `lines`
  lineIdx,    \* parseFileBlock's `i`
  paths,      \* parseFileBlock's `pathMatch`: [old, new]
  locals,     \* parseFileBlock's chunks, currentChunk and counters
  calls,      \* the calls that returned so far: [sourceDir, text, files]
  tree,       \* the repository getDiff reads: [staged, unstaged, untracked]
  fullDiff,   \* getDiff's `fullDiff`
  result,     \* what getDiff returned: absent, or <<[diff, files]>>
  fileRequest, \* getFileContent's arguments: [folderName, filePath]
  fileAnswer, \* what getFileContent did: absent, or <<[folderPath, accepted, error, read]>>
  disk,       \* the folder's directory: comments.json, comments.json.tmp
  reqs,       \* the comment requests under way, one record per slot
  nextId,     \* the number of ids randomUUID has handed out, plus one
  received,   \* the number of comment requests received so far
  expected,   \* ids added with success and not deleted or cleared since
  history,    \* the comment calls that ended: [op, req, before, after, error]
  folderName, \* useMigration's argument: absent (null) or <<folder>>
  migrationAttempted, \* useMigration's migrationAttempted.current
  migrated,   \* the folders localStorage marks as migrated
  localStore, \* the comments localStorage holds, by folder
  pending     \* the migrate requests sent and not yet answered, by folder

callVars == <<input, diffText, pc, files>>

frameVars == <<sourceDir, fileBlocks, blockIdx, lines, lineIdx, paths, locals, calls>>

gitVars == <<tree, fullDiff, result, fileRequest, fileAnswer>>

storeVars == <<disk, reqs, nextId, received, expected, history>>

clientVars == <<folderName, migrationAttempted, migrated, localStore, pending>>

vars == <<callVars, frameVars, gitVars, storeVars, clientVars>>

(***************************************************************************)
(* Strings                                                                 *)
(***************************************************************************)
\* s[i], the empty string outside the string.
Char(s, i) == IF 1 <= i /\ i <= Len(s) THEN SubSeq(s, i, i) ELSE ""

\* String.prototype.startsWith, at position i.
StartsWithAt(s, p, i) == i + Len(p) - 1 <= Len(s) /\ SubSeq(s, i, i + Len(p) - 1) = p

StartsWith(s, p) == StartsWithAt(s, p, 1)

\* ECMAScript LineTerminator, which `.` does not match and after which a
\* multiline `^` matches.  U+2028 and U+2029 are outside the alphabet used.
IsLineTerminator(c) == c \in {"\n", "\r"}

HasLineTerminator(s) == \E i \in 1..Len(s) : IsLineTerminator(Char(s, i))

IsDigit(c) == c \in {"0", "1", "2", "3", "4", "5", "6", "7", "8", "9"}

DigitVal(c) ==
  CASE c = "0" -> 0 [] c = "1" -> 1 [] c = "2" -> 2 [] c = "3" -> 3 [] c = "4" -> 4
    [] c = "5" -> 5 [] c = "6" -> 6 [] c = "7" -> 7 [] c = "8" -> 8 [] c = "9" -> 9

\* parseInt on a string of decimal digits (what \d+ captured).
RECURSIVE parseInt(_)
parseInt(s) ==
  IF Len(s) = 0 THEN 0
  ELSE 10 * parseInt(SubSeq(s, 1, Len(s) - 1)) + DigitVal(Char(s, Len(s)))

\* The position after the longest run of digits that starts at i.
RECURSIVE DigitsEnd(_, _)
DigitsEnd(s, i) ==
  IF i <= Len(s) /\ IsDigit(Char(s, i)) THEN DigitsEnd(s, i + 1) ELSE i

Min(S) == CHOOSE m \in S : \A n \in S : m <= n

Max(S) == CHOOSE m \in S : \A n \in S : m >= n

\* The k-th smallest member of a set of numbers.
Nth(S, k) == CHOOSE p \in S : Cardinality({q \in S : q < p}) = k - 1

\* block.split('\n'): the pieces between the newlines.
SplitLines(s) ==
  LET nl == {i \in 1..Len(s) : Char(s, i) = "\n"}
      n == Cardinality(nl)
      from(k) == IF k = 1 THEN 1 ELSE Nth(nl, k - 1) + 1
      to(k) == IF k = n + 1 THEN Len(s) ELSE Nth(nl, k) - 1
  IN  [k \in 1..(n + 1) |-> SubSeq(s, from(k), to(k))]

(***************************************************************************)
(* parseDiff: the split into file blocks                                   *)
(***************************************************************************)
DiffGit == "diff --git "

\* Whether /^diff --git /m matches at i: at the start of the text or right
\* after a line terminator.
BlockStartsAt(text, i) ==
  /\ i = 1 \/ IsLineTerminator(Char(text, i - 1))
  /\ StartsWithAt(text, DiffGit, i)

\* diffText.split(/^diff --git /m): the pieces between the matches.
SplitBlocks(text) ==
  LET at == {i \in 1..Len(text) : BlockStartsAt(text, i)}
      n == Cardinality(at)
      from(k) == IF k = 1 THEN 1 ELSE Nth(at, k - 1) + Len(DiffGit)
      to(k) == IF k = n + 1 THEN Len(text) ELSE Nth(at, k) - 1
  IN  [k \in 1..(n + 1) |-> SubSeq(text, from(k), to(k))]

\* .filter(Boolean): the empty string is the only falsy piece.
fileBlocksOf(text) == SelectSeq(SplitBlocks(text), LAMBDA piece : piece # "")

(***************************************************************************)
(* parseFileBlock: the two regular expressions                             *)
(***************************************************************************)
\* A first line of any shape taken as the path.
pathMatchAnyLine(line) ==
  IF line = "" \/ HasLineTerminator(line) THEN <<>> ELSE <<[old |-> line, new |-> line]>>

\* lines[0].match(/^a\/(.+) b\/(.+)$/): absent, or <<[old, new]>>.  Both
\* groups are greedy, so the split is at the LAST " b/" that leaves both
\* groups non-empty; `.` matches no line terminator.
pathMatch(line) ==
  LET splits == {j \in 4..(Len(line) - 3) : SubSeq(line, j, j + 2) = " b/"}
  IN  IF StartsWith(line, "a/") /\ ~HasLineTerminator(line) /\ splits # {}
      THEN <<[old |-> SubSeq(line, 3, Max(splits) - 1),
              new |-> SubSeq(line, Max(splits) + 3, Len(line))]>>
      ELSE <<>>

\* line.match(/^@@ -(\d+),?(\d*) \+(\d+),?(\d*) @@(.*)$/): absent, or the
\* four captured digit strings.  Each \d+ and \d* takes the longest run of
\* digits: a shorter one never lets the rest of the pattern match.
chunkMatch(line) ==
  LET e1 == DigitsEnd(line, 5)
      p2 == IF Char(line, e1) = "," THEN e1 + 1 ELSE e1
      e2 == DigitsEnd(line, p2)
      p3 == e2 + 2
      e3 == DigitsEnd(line, p3)
      p4 == IF Char(line, e3) = "," THEN e3 + 1 ELSE e3
      e4 == DigitsEnd(line, p4)
  IN  IF /\ StartsWith(line, "@@ -")
         /\ e1 > 5
         /\ StartsWithAt(line, " +", e2)
         /\ e3 > p3
         /\ StartsWithAt(line, " @@", e4)
         /\ ~HasLineTerminator(SubSeq(line, e4 + 3, Len(line)))
      THEN <<[g1 |-> SubSeq(line, 5, e1 - 1), g2 |-> SubSeq(line, p2, e2 - 1),
              g3 |-> SubSeq(line, p3, e3 - 1), g4 |-> SubSeq(line, p4, e4 - 1)]>>
      ELSE <<>>

(***************************************************************************)
(* parseFileBlock: the scan of the lines                                   *)
(*                                                                         *)
(* The locals of parseFileBlock are one record.  A DiffChunk is an object: *)
(* `heap` holds the chunk objects created so far, and `chunks` and         *)
(* `currentChunk` hold references (indexes into heap; currentChunk = 0 is  *)
(* null), so that a line pushed to currentChunk.lines shows in every       *)
(* element of chunks that refers to the same object.  `threw` is set where *)
(* the JavaScript would raise a TypeError.                                 *)
(***************************************************************************)
\* Accumulators that outlive the call: additions and deletions go on from
\* where the block before left them.
initLocalsKept ==
  [heap |-> <<>>, chunks |-> <<>>, currentChunk |-> 0,
   oldLineNum |-> 0, newLineNum |-> 0,
   additions |-> locals.additions, deletions |-> locals.deletions,
   threw |-> FALSE]

\* Lines 247-252: the declarations of the locals.
initLocals ==
  [heap |-> <<>>, chunks |-> <<>>, currentChunk |-> 0,
   oldLineNum |-> 0, newLineNum |-> 0, additions |-> 0, deletions |-> 0,
   threw |-> FALSE]

\* Lines 259-261: if (currentChunk) chunks.push(currentChunk).
pushCurrentChunk(st) ==
  IF st.currentChunk # 0
  THEN [st EXCEPT !.chunks = Append(@, st.currentChunk)]
  ELSE st

\* parseInt(count) || 1: a count written as 0 becomes 1.
openChunkZeroIsOne(st, line) ==
  LET m == chunkMatch(line)
  IN  IF m = <<>> THEN st
      ELSE LET oldLineNum == parseInt(m[1].g1)
               oldCount == IF parseInt(m[1].g2) # 0 THEN parseInt(m[1].g2) ELSE 1
               newLineNum == parseInt(m[1].g3)
               newCount == IF parseInt(m[1].g4) # 0 THEN parseInt(m[1].g4) ELSE 1
           IN  [st EXCEPT
                  !.oldLineNum = oldLineNum,
                  !.newLineNum = newLineNum,
                  !.heap = Append(@, [oldStart |-> oldLineNum, oldLines |-> oldCount,
                                      newStart |-> newLineNum, newLines |-> newCount,
                                      header |-> line, lines |-> <<>>]),
                  !.currentChunk = Len(st.heap) + 1]

\* Lines 263-278: a matching header resets the counters and opens a chunk;
\* a header that does not match leaves the counters and currentChunk alone.
openChunk(st, line) ==
  LET m == chunkMatch(line)
  IN  IF m = <<>> THEN st
      ELSE LET oldLineNum == parseInt(m[1].g1)
               oldCount == IF m[1].g2 # "" THEN parseInt(m[1].g2) ELSE 1
               newLineNum == parseInt(m[1].g3)
               newCount == IF m[1].g4 # "" THEN parseInt(m[1].g4) ELSE 1
           IN  [st EXCEPT
                  !.oldLineNum = oldLineNum,
                  !.newLineNum = newLineNum,
                  !.heap = Append(@, [oldStart |-> oldLineNum, oldLines |-> oldCount,
                                      newStart |-> newLineNum, newLines |-> newCount,
                                      header |-> line, lines |-> <<>>]),
                  !.currentChunk = Len(st.heap) + 1]

\* The guard of line 282 left out.
noChunkOpenUnguarded(st) == FALSE

\* Line 282: if (!currentChunk) continue.
noChunkOpen(st) == st.currentChunk = 0

\* Line 309: currentChunk.lines.push(diffLine); a TypeError on null.
pushLine(st, diffLine) ==
  IF st.currentChunk = 0
  THEN [st EXCEPT !.threw = TRUE]
  ELSE [st EXCEPT !.heap[st.currentChunk].lines = Append(@, diffLine)]

\* An addition whose content is the whole line, marker included.
additionLineWithMarker(st, line) ==
  pushLine([st EXCEPT !.newLineNum = @ + 1, !.additions = @ + 1],
           [type |-> "addition", content |-> line,
            oldLineNumber |-> <<>>, newLineNumber |-> <<st.newLineNum>>])

\* Lines 292-295.
additionLine(st, line) ==
  pushLine([st EXCEPT !.newLineNum = @ + 1, !.additions = @ + 1],
           [type |-> "addition", content |-> SubSeq(line, 2, Len(line)),
            oldLineNumber |-> <<>>, newLineNumber |-> <<st.newLineNum>>])

\* A deletion that is given the new counter's number as well.
deletionLineBothNumbers(st, line) ==
  pushLine([st EXCEPT !.oldLineNum = @ + 1, !.deletions = @ + 1],
           [type |-> "deletion", content |-> SubSeq(line, 2, Len(line)),
            oldLineNumber |-> <<st.oldLineNum>>, newLineNumber |-> <<st.newLineNum>>])

\* Lines 296-299.
deletionLine(st, line) ==
  pushLine([st EXCEPT !.oldLineNum = @ + 1, !.deletions = @ + 1],
           [type |-> "deletion", content |-> SubSeq(line, 2, Len(line)),
            oldLineNumber |-> <<st.oldLineNum>>, newLineNumber |-> <<>>])

\* A context line that advances the old counter only.
contextLineOldOnly(st, line) ==
  pushLine([st EXCEPT !.oldLineNum = @ + 1],
           [type |-> "context", content |-> SubSeq(line, 2, Len(line)),
            oldLineNumber |-> <<st.oldLineNum>>, newLineNumber |-> <<st.newLineNum>>])

\* Lines 300-303.
contextLine(st, line) ==
  pushLine([st EXCEPT !.oldLineNum = @ + 1, !.newLineNum = @ + 1],
           [type |-> "context", content |-> SubSeq(line, 2, Len(line)),
            oldLineNumber |-> <<st.oldLineNum>>, newLineNumber |-> <<st.newLineNum>>])

\* A line without a marker takes a line number on both sides.
lineStepSkipCounts(st, line) ==
  IF st.threw THEN st
  ELSE IF StartsWith(line, "@@") THEN openChunk(pushCurrentChunk(st), line)
  ELSE IF noChunkOpen(st) THEN st
  ELSE IF StartsWith(line, "+") THEN additionLine(st, line)
  ELSE IF StartsWith(line, "-") THEN deletionLine(st, line)
  ELSE IF StartsWith(line, " ") THEN contextLine(st, line)
  ELSE [st EXCEPT !.oldLineNum = @ + 1, !.newLineNum = @ + 1]

\* A marker counted before the test for an open chunk.
lineStepCountsBeforeHunk(st, line) ==
  IF st.threw THEN st
  ELSE IF StartsWith(line, "@@") THEN openChunk(pushCurrentChunk(st), line)
  ELSE IF noChunkOpen(st)
       THEN IF StartsWith(line, "+") THEN [st EXCEPT !.additions = @ + 1]
            ELSE IF StartsWith(line, "-") THEN [st EXCEPT !.deletions = @ + 1]
            ELSE st
  ELSE IF StartsWith(line, "+") THEN additionLine(st, line)
  ELSE IF StartsWith(line, "-") THEN deletionLine(st, line)
  ELSE IF StartsWith(line, " ") THEN contextLine(st, line)
  ELSE st

\* Lines 255-309: one iteration of the loop over the lines.
lineStep(st, line) ==
  IF st.threw THEN st
  ELSE IF StartsWith(line, "@@") THEN openChunk(pushCurrentChunk(st), line)
  ELSE IF noChunkOpen(st) THEN st
  ELSE IF StartsWith(line, "+") THEN additionLine(st, line)
  ELSE IF StartsWith(line, "-") THEN deletionLine(st, line)
  ELSE IF StartsWith(line, " ") THEN contextLine(st, line)
  ELSE st

\* for (let i = diffStartIndex; i < lines.length; i++)
RECURSIVE scanLines(_, _, _)
scanLines(st, ls, i) ==
  IF i > Len(ls) THEN st ELSE scanLines(lineStep(st, ls[i]), ls, i + 1)

\* lines.findIndex(line => line.startsWith('@@')), 0 for -1.
diffStartIndex(ls) ==
  LET at == {i \in 1..Len(ls) : StartsWith(ls[i], "@@")}
  IN  IF at = {} THEN 0 ELSE Min(at)

\* Lines 316-322: the DiffFile, its chunks read through their references.
makeFile(m, st) ==
  [path |-> m.new,
   oldPath |-> IF m.old # m.new THEN <<m.old>> ELSE <<>>,
   additions |-> st.additions,
   deletions |-> st.deletions,
   chunks |-> [k \in 1..Len(st.chunks) |-> st.heap[st.chunks[k]]]]

\* parseFileBlock(block): [threw, file], file absent for null.
parseFileBlock(block) ==
  LET ls == SplitLines(block)
      m == pathMatch(ls[1])
      st == pushCurrentChunk(scanLines(initLocals, ls, diffStartIndex(ls)))
  IN  IF m = <<>> THEN [threw |-> FALSE, file |-> <<>>]
      ELSE IF diffStartIndex(ls) = 0 THEN [threw |-> FALSE, file |-> <<>>]
      ELSE IF st.threw THEN [threw |-> TRUE, file |-> <<>>]
      ELSE [threw |-> FALSE, file |-> <<makeFile(m[1], st)>>]

\* files.unshift(file): each file put before the earlier ones.
RECURSIVE parseBlocksUnshift(_, _, _)
parseBlocksUnshift(blocks, k, acc) ==
  IF k > Len(blocks) THEN [threw |-> FALSE, files |-> acc]
  ELSE LET r == parseFileBlock(blocks[k])
       IN  IF r.threw THEN [threw |-> TRUE, files |-> <<>>]
           ELSE parseBlocksUnshift(blocks, k + 1, r.file \o acc)

\* Lines 220-225: the loop over the blocks; an exception ends it.
RECURSIVE parseBlocks(_, _, _)
parseBlocks(blocks, k, acc) ==
  IF k > Len(blocks) THEN [threw |-> FALSE, files |-> acc]
  ELSE LET r == parseFileBlock(blocks[k])
       IN  IF r.threw THEN [threw |-> TRUE, files |-> <<>>]
           ELSE parseBlocks(blocks, k + 1, acc \o r.file)

\* parseDiff(text): [threw, files].
parseDiff(text) == parseBlocks(fileBlocksOf(text), 1, <<>>)

(***************************************************************************)
(* Diff text, as git and generateUntrackedFilesDiff write it                *)
(*                                                                         *)
(* A segment is [head, body]: the text of its first line after             *)
(* "diff --git " and the lines that follow; every line ends with "\n".     *)
(***************************************************************************)
MaxLines == 4

MaxSegs == 3

RECURSIVE JoinLines(_)
JoinLines(ls) ==
  IF ls = <<>> THEN "" ELSE Head(ls) \o "\n" \o JoinLines(Tail(ls))

RenderSegment(seg) == DiffGit \o seg.head \o "\n" \o JoinLines(seg.body)

RECURSIVE RenderSegments(_)
RenderSegments(segs) ==
  IF segs = <<>> THEN "" ELSE RenderSegment(Head(segs)) \o RenderSegments(Tail(segs))

\* getDiff joins the staged, unstaged and untracked texts with "\n", so
\* the text may begin with an empty line.
Render(in) == in.lead \o RenderSegments(in.segments)

DigitOf(d) ==
  CASE d = 0 -> "0" [] d = 1 -> "1" [] d = 2 -> "2" [] d = 3 -> "3" [] d = 4 -> "4"
    [] d = 5 -> "5" [] d = 6 -> "6" [] d = 7 -> "7" [] d = 8 -> "8" [] d = 9 -> "9"

\* `${n}`: a number written in decimal.
RECURSIVE ToDecimal(_)
ToDecimal(n) == IF n < 10 THEN DigitOf(n) ELSE ToDecimal(n \div 10) \o DigitOf(n % 10)

Starts == {0, 1, 10, 12}

\* A count: absent (<<>>) or written.
Counts == {<<>>, <<0>>, <<1>>, <<5>>}

Sections == {"", " fn"}

Range(start, count) ==
  ToDecimal(start) \o (IF count = <<>> THEN "" ELSE "," \o ToDecimal(count[1]))

\* @@ -a[,b] +c[,d] @@<section>
HunkHeader(a, b, c, d, section) ==
  "@@ -" \o Range(a, b) \o " +" \o Range(c, d) \o " @@" \o section

Paths == {"f", "g", "my file", "x b/y"}

\* a/<old> b/<new>
PathHeader(old, new) == "a/" \o old \o " b/" \o new

BadHunkHeader == "@@ bad"

NoNewline == "\\ No newline at end of file"

BodyLines ==
  {HunkHeader(1, <<2>>, 1, <<3>>, ""), HunkHeader(10, <<5>>, 12, <<>>, " fn"),
   BadHunkHeader, "+n", "-o", " k", NoNewline}

SeqsUpTo(S, n) == UNION {[1..k -> S] : k \in 0..n}

\* One file, every body of at most MaxLines lines.
BodyInputs ==
  {[lead |-> "", segments |-> <<[head |-> PathHeader("f", "f"), body |-> b]>>] :
     b \in SeqsUpTo(BodyLines, MaxLines)}

\* The first line git writes for a path it quotes: not of the form a/X b/Y.
QuotedHeader == "\"a/t\\tf\" \"b/t\\tf\""

Heads == {PathHeader("f", "f"), PathHeader("o", "n"), QuotedHeader}

Bodies ==
  {<<"new file mode 100644">>,
   <<"--- a/f", "+++ b/f", HunkHeader(1, <<2>>, 1, <<3>>, ""), " k", "-o", "+n">>,
   <<HunkHeader(0, <<0>>, 1, <<>>, ""), "+n">>}

\* At most MaxSegs segments, one after the other.
SegmentInputs ==
  {[lead |-> l, segments |-> ss] :
     l \in {"", "\n"},
     ss \in SeqsUpTo({[head |-> h, body |-> b] : h \in Heads, b \in Bodies}, MaxSegs)}

\* One file with one hunk, every hunk header.
HeaderInputs ==
  {[lead |-> "",
    segments |-> <<[head |-> PathHeader("f", "f"),
                    body |-> <<HunkHeader(a, b, c, d, s), "-o", "+n">>]>>] :
     a \in Starts, b \in Counts, c \in Starts, d \in Counts, s \in Sections}

\* One file with one hunk, every pair of paths.
PathInputs ==
  {[lead |-> "",
    segments |-> <<[head |-> PathHeader(old, new),
                    body |-> <<HunkHeader(1, <<>>, 1, <<>>, ""), "-o", "+n">>]>>] :
     old \in Paths, new \in Paths}

\* One file with one hunk whose body holds empty lines and "\" lines.
SkipInputs ==
  {[lead |-> "",
    segments |-> <<[head |-> PathHeader("f", "f"),
                    body |-> <<HunkHeader(1, <<2>>, 1, <<3>>, "")>> \o b]>>] :
     b \in SeqsUpTo({"+n", " k", "", NoNewline, "++ x "}, MaxLines - 1)}

Inputs == BodyInputs \cup SegmentInputs \cup HeaderInputs \cup PathInputs \cup SkipInputs

(***************************************************************************)
(* getDiff: the text handed to parseDiff                                   *)
(*                                                                         *)
(* The repository is [staged, unstaged, untracked]: what `git diff         *)
(* --cached` and `git diff HEAD` print and the files of status.not_added,  *)
(* each [path, content], content absent when the read fails.               *)
(***************************************************************************)
MaxUntracked == 2

\* The white space String.prototype.trim removes, within the alphabet used.
IsWhiteSpace(c) == c \in {" ", "\t", "\n", "\r"}

\* A trim that removes blanks only, no line ends.
trimSpaces(s) ==
  LET keep == {i \in 1..Len(s) : Char(s, i) # " "}
  IN  IF keep = {} THEN "" ELSE SubSeq(s, Min(keep), Max(keep))

\* fullDiff.trim()
trim(s) ==
  LET keep == {i \in 1..Len(s) : ~IsWhiteSpace(Char(s, i))}
  IN  IF keep = {} THEN "" ELSE SubSeq(s, Min(keep), Max(keep))

\* diffs.join('\n')
RECURSIVE JoinWith(_, _)
JoinWith(ss, sep) ==
  IF ss = <<>> THEN ""
  ELSE IF Len(ss) = 1 THEN ss[1]
  ELSE ss[1] \o sep \o JoinWith(Tail(ss), sep)

\* Lines 165-170: fullPath.startsWith(folderPath), fullPath the normalized
\* join of the folder and the path.
insideFolder(filePath) == ~StartsWith(filePath, "../")

\* Lines 174-187: the diff written for one file that was read.
untrackedFileDiff(filePath, content) ==
  LET pieces == SplitLines(content)
  IN  DiffGit \o "a/" \o filePath \o " b/" \o filePath \o "\n"
        \o "new file mode 100644\n"
        \o "index 0000000..0000000\n"
        \o "--- /dev/null\n"
        \o "+++ b/" \o filePath \o "\n"
        \o "@@ -0,0 +1," \o ToDecimal(Len(pieces)) \o " @@\n"
        \o JoinLines([k \in 1..Len(pieces) |-> "+" \o pieces[k]])

\* Lines 157-197: the diffs of the files inside the folder that were read,
\* joined by "\n"; the empty text when there is none.
generateUntrackedFilesDiff(untrackedFiles) ==
  LET read == SelectSeq(untrackedFiles,
                        LAMBDA f : insideFolder(f.path) /\ f.content # <<>>)
  IN  JoinWith([k \in 1..Len(read) |-> untrackedFileDiff(read[k].path, read[k].content[1])],
               "\n")

\* Line 119.
fullDiffOf(t) ==
  t.staged \o "\n" \o t.unstaged \o "\n" \o generateUntrackedFilesDiff(t.untracked)

Blanks == {"", "\n", " \t\r\n"}

TrackedDiff ==
  RenderSegment([head |-> PathHeader("g", "g"),
                 body |-> <<HunkHeader(1, <<>>, 1, <<>>, ""), "-o", "+n">>])

\* Untracked files: empty, with and without a last newline, with CRLF line
\* ends, with a bare CR before a line that reads as a diff header, in a
\* directory whose name ends with " b", and one that cannot be read.
UntrackedFiles ==
  {[path |-> "f", content |-> <<"">>],
   [path |-> "f", content |-> <<"a\nb\n">>],
   [path |-> "h", content |-> <<"a\r\n-b">>],
   [path |-> "m", content |-> <<"a\rdiff --git a/q b/q\n@@ -1 +1 @@">>],
   [path |-> "x b/y", content |-> <<"a">>],
   [path |-> "bin", content |-> <<>>]}

Trees ==
  {[staged |-> s, unstaged |-> u, untracked |-> fs] :
     s \in Blanks \cup {TrackedDiff},
     u \in {"", TrackedDiff},
     fs \in SeqsUpTo(UntrackedFiles, MaxUntracked)}

(***************************************************************************)
(* GitService.getFileContent: a file of a repository under sourceDir       *)
(***************************************************************************)
\* The parts of a path between its slashes.
RECURSIVE Segments(_)
Segments(p) ==
  LET cut == {i \in 1..Len(p) : Char(p, i) = "/"}
  IN  IF p = "" THEN <<>>
      ELSE IF cut = {} THEN <<p>>
      ELSE <<SubSeq(p, 1, Min(cut) - 1)>> \o Segments(SubSeq(p, Min(cut) + 1, Len(p)))

\* The segments of an absolute path without "", "." and "..": ".." takes
\* the segment before it away, and nothing at the root.
RECURSIVE resolved(_, _)
resolved(stack, segs) ==
  IF segs = <<>> THEN stack
  ELSE LET h == Head(segs)
       IN  resolved(IF h \in {"", "."} THEN stack
                    ELSE IF h = ".."
                    THEN (IF stack = <<>> THEN <<>> ELSE SubSeq(stack, 1, Len(stack) - 1))
                    ELSE Append(stack, h),
                    Tail(segs))

\* path.normalize of an absolute posix path; a slash at the end is kept.
normalize(p) ==
  LET stack == resolved(<<>>, Segments(p))
  IN  IF stack = <<>> THEN "/"
      ELSE "/" \o JoinWith(stack, "/") \o (IF Char(p, Len(p)) = "/" THEN "/" ELSE "")

\* path.join(a, b) for an absolute a: the arguments that are not empty,
\* joined with a slash and normalized.
pathJoin(a, b) == IF b = "" THEN normalize(a) ELSE normalize(a \o "/" \o b)

\* The file system: the directories, the work trees of git among them, and
\* the files.
Dirs == {"/", "/etc", "/repos", "/repos/app", "/repos/app/d", "/repos/app2", "/reposx"}

WorkTrees == {"/repos/app", "/repos/app2", "/reposx"}

FilesOnDisk ==
  {"/repos/app/f", "/repos/app/d/e", "/repos/app2/secret", "/reposx/y", "/etc/passwd"}

\* Lines 48-56: `git status` runs in the directory, which is one of a work
\* tree.
isGitRepository(folderPath) ==
  \E d \in Dirs, w \in WorkTrees :
    /\ folderPath \in {d, d \o "/"}
    /\ d = w \/ StartsWith(d, w \o "/")

\* Lines 202-211: validateGitRepo; the error, or "".
validateGitRepo(dir, folderPath) ==
  IF ~StartsWith(folderPath, dir) THEN "Invalid folder path"
  ELSE IF ~isGitRepository(folderPath) THEN "Not a git repository"
  ELSE ""

\* Lines 136-152: getFileContent; [folderPath, accepted, error, read].
getFileContent(dir, folder, filePath) ==
  LET folderPath == pathJoin(dir, folder)
      invalid == validateGitRepo(dir, folderPath)
      fullPath == pathJoin(folderPath, filePath)
      error == IF invalid # "" THEN invalid
               ELSE IF ~StartsWith(fullPath, folderPath) THEN "Invalid file path"
               ELSE IF fullPath \notin FilesOnDisk THEN "Failed to read file"
               ELSE ""
  IN  [folderPath |-> folderPath, accepted |-> invalid = "", error |-> error,
       read |-> IF error = "" THEN <<fullPath>> ELSE <<>>]

FolderNames == {"app", "app/", "app2", "app/d", "app/../app2", "none", "..", "../reposx"}

FilePaths ==
  {"f", "./f", "d/e", "d/../f", "g", "..", "../app/f", "../app2/secret", "../../reposx/y",
   "/etc/passwd", "../../../etc/passwd"}

\* getFileContent was not called.
NoFile ==
  /\ fileRequest = [folderName |-> "", filePath |-> ""]
  /\ fileAnswer = <<>>

\* getDiff was not called.
NoGit ==
  /\ tree = [staged |-> "", unstaged |-> "", untracked |-> <<>>]
  /\ fullDiff = ""
  /\ result = <<>>
  /\ NoFile

(***************************************************************************)
(* CommentService: the comments of one folder                              *)
(*                                                                         *)
(* A Comment is [id, folderName, filePath, lineNumber, content,            *)
(* timestamp].  The directory code-review/<folder> is [file, temp,         *)
(* inodes]: the entries comments.json and comments.json.tmp, each absent   *)
(* or one file [ino, comments, whole], and the number of files created.    *)
(* `comments` is the list whose JSON text the file holds and `whole` says  *)
(* that the text is all there: a file just opened for writing is empty,    *)
(* and a shorter text written over a longer one leaves the longer one's    *)
(* tail.  JSON.parse fails on a text that is not whole.                    *)
(***************************************************************************)
MaxInFlight == 2

MaxRequests == 3

MaxOps == 3

Folder == "repo"

\* comments.find(c => c.id === commentId) found one.
HasId(comments, id) == \E k \in 1..Len(comments) : comments[k].id = id

\* The values a client sends in a field of the comment data: a string, a
\* number, null, or nothing (undefined).
Str(s) == [type |-> "string", str |-> s, num |-> 0]

Num(n) == [type |-> "number", str |-> "", num |-> n]

Null == [type |-> "object", str |-> "", num |-> 0]

Undefined == [type |-> "undefined", str |-> "", num |-> 0]

\* A check of the content only.
validateContentOnly(data) ==
  IF data.content.type # "string" \/ trim(data.content.str) = ""
  THEN "Comment content is required"
  ELSE ""

\* Lines 74-84: validateCommentData.
validateCommentData(data) ==
  IF data.content.type # "string" \/ trim(data.content.str) = ""
  THEN "Comment content is required"
  ELSE IF data.filePath.type # "string" \/ data.filePath.str = ""
  THEN "File path is required"
  ELSE IF data.lineNumber # Null /\ data.lineNumber.type # "number"
  THEN "Line number must be a number or null"
  ELSE ""

\* Lines 146-150: { id: randomUUID(), ...commentData, timestamp: Date.now() };
\* an id in commentData takes the place of the generated one.
newComment(data, uuid, now) ==
  [id |-> IF data.id # <<>> THEN data.id[1] ELSE uuid,
   folderName |-> data.folderName, filePath |-> data.filePath.str,
   lineNumber |-> IF data.lineNumber = Null THEN <<>> ELSE <<data.lineNumber.num>>,
   content |-> data.content.str, timestamp |-> now]

\* randomUUID(): the n-th id handed out.
randomUUID(n) == "s" \o ToDecimal(n)

\* An update that puts the changed comment last.
updatedLast(comments, commentId, content, now) ==
  LET k == Min({j \in 1..Len(comments) : comments[j].id = commentId})
  IN  SubSeq(comments, 1, k - 1) \o SubSeq(comments, k + 1, Len(comments))
        \o <<[comments[k] EXCEPT !.content = content, !.timestamp = now]>>

\* Lines 171-178: the first comment with the id gets the content and the time.
updated(comments, commentId, content, now) ==
  LET k == Min({j \in 1..Len(comments) : comments[j].id = commentId})
  IN  [comments EXCEPT ![k].content = content, ![k].timestamp = now]

\* A filter that leaves out the first comment with the id only.
filteredFirst(comments, commentId) ==
  LET hits == {j \in 1..Len(comments) : comments[j].id = commentId}
  IN  IF hits = {} THEN comments
      ELSE SubSeq(comments, 1, Min(hits) - 1) \o SubSeq(comments, Min(hits) + 1, Len(comments))

\* Line 188: comments.filter(c => c.id !== commentId).
filtered(comments, commentId) == SelectSeq(comments, LAMBDA c : c.id # commentId)

\* A merge in which a local comment takes the place of the stored one.
mergedCommentsLocalWins(existing, localComments) ==
  SelectSeq(existing, LAMBDA c : ~HasId(localComments, c.id)) \o localComments

\* A merge that appends every local comment.
mergedCommentsAppendAll(existing, localComments) == existing \o localComments

\* Lines 214-219: the stored comments, then the local ones whose id is not
\* among the stored ones.
mergedComments(existing, localComments) ==
  existing \o SelectSeq(localComments, LAMBDA l : ~HasId(existing, l.id))

\* Lines 90-104: loadComments; [error, comments].
loadComments(d) ==
  IF d.file = <<>> THEN [error |-> "", comments |-> <<>>]
  ELSE IF ~d.file[1].whole THEN [error |-> "Failed to load comments", comments |-> <<>>]
  ELSE [error |-> "", comments |-> d.file[1].comments]

\* Line 122, first half: fs.writeFile opens the temp path for writing, which
\* creates the file or empties the one that is there.
openTemp(d) ==
  IF d.temp = <<>>
  THEN [d EXCEPT !.temp = <<[ino |-> d.inodes + 1, comments |-> <<>>, whole |-> FALSE]>>,
                 !.inodes = @ + 1]
  ELSE [d EXCEPT !.temp[1].comments = <<>>, !.temp[1].whole = FALSE]

\* The text written from the start of a file: over a longer text it leaves
\* that text's tail.
written(f, toSave) ==
  IF f.whole /\ Len(f.comments) > Len(toSave)
  THEN [f EXCEPT !.whole = FALSE]
  ELSE [f EXCEPT !.comments = toSave, !.whole = TRUE]

\* Line 122, second half: the text goes to the file that was opened,
\* whatever its name is by now.
writeTemp(d, fd, toSave) ==
  [d EXCEPT !.temp = IF @ # <<>> /\ @[1].ino = fd THEN <<written(@[1], toSave)>> ELSE @,
            !.file = IF @ # <<>> /\ @[1].ino = fd THEN <<written(@[1], toSave)>> ELSE @]

\* Line 123: fs.rename(tempPath, filePath), where the temp entry exists.
renameTemp(d) == [d EXCEPT !.file = d.temp, !.temp = <<>>]

\* Line 127: fs.unlink(tempPath), its error ignored.
unlinkTemp(d) == [d EXCEPT !.temp = <<>>]

\* Lines 109-133 without another call in between: the temp file is written
\* whole and renamed.
saveComments(d, toSave) ==
  LET o == openTemp(d) IN renameTemp(writeTemp(o, o.temp[1].ino, toSave))

\* What a request does to the list it loaded: [error, toSave].
\* Lines 144-152, 170-178, 187-192, 211-219.
toSaveOf(req, comments, uuid, now) ==
  CASE req.op = "add" ->
         [error |-> "", toSave |-> Append(comments, newComment(req.data, uuid, now))]
    [] req.op = "update" ->
         IF ~HasId(comments, req.commentId)
         THEN [error |-> "Comment not found", toSave |-> <<>>]
         ELSE [error |-> "", toSave |-> updated(comments, req.commentId, req.content, now)]
    [] req.op = "delete" ->
         IF Len(filtered(comments, req.commentId)) = Len(comments)
         THEN [error |-> "Comment not found", toSave |-> <<>>]
         ELSE [error |-> "", toSave |-> filtered(comments, req.commentId)]
    [] req.op = "clear" -> [error |-> "", toSave |-> <<>>]
    [] req.op = "migrate" ->
         [error |-> "", toSave |-> mergedComments(comments, req.localComments)]

\* s.includes(sub)
includes(s, sub) ==
  \E i \in 1..(Len(s) - Len(sub) + 1) : SubSeq(s, i, i + Len(sub) - 1) = sub

\* The status of the response: index.ts 154-158, 176-180, 191-196, 207-211,
\* 228-232; String(error) is "Error: " and the message.
statusOf(op, error) ==
  LET notFound == includes("Error: " \o error, "not found")
  IN  IF error = "" THEN 200
      ELSE CASE op = "add" -> 400
             [] op = "update" -> IF notFound THEN 404 ELSE 400
             [] op = "delete" -> IF notFound THEN 404 ELSE 500
             [] OTHER -> 500

\* What is checked before the store is read: lines 142 and 166-168.
rejected(req) ==
  CASE req.op = "add" -> validateCommentData(req.data)
    [] req.op = "update" -> IF trim(req.content) = "" THEN "Comment content is required" ELSE ""
    [] OTHER -> ""

CommentData(id, content) ==
  [id |-> id, folderName |-> Folder, filePath |-> Str("f"), lineNumber |-> Num(1),
   content |-> Str(content)]

\* A comment the client kept in localStorage.
Local(id, content) ==
  [id |-> id, folderName |-> Folder, filePath |-> "f", lineNumber |-> <<>>,
   content |-> content, timestamp |-> 0]

NoRequest ==
  [op |-> "none", commentId |-> "", content |-> "", data |-> CommentData(<<>>, ""),
   localComments |-> <<>>]

AddRequest(data) == [NoRequest EXCEPT !.op = "add", !.data = data]

UpdateRequest(id, content) ==
  [NoRequest EXCEPT !.op = "update", !.commentId = id, !.content = content]

DeleteRequest(id) == [NoRequest EXCEPT !.op = "delete", !.commentId = id]

ClearRequest == [NoRequest EXCEPT !.op = "clear"]

MigrateRequest(localComments) ==
  [NoRequest EXCEPT !.op = "migrate", !.localComments = localComments]

\* The local lists a client sends: one comment, two, the same id twice, and
\* a comment whose id the server handed out.
LocalLists ==
  {<<Local("l1", "a")>>,
   <<Local("l1", "a"), Local("l2", "b")>>,
   <<Local("l2", "b"), Local("l2", "b")>>,
   <<Local("s1", "a"), Local("l1", "a")>>}

\* Comment data with a content that is no string, without a file path, with
\* a line number that is a string or missing, with null for the line number,
\* and with an id of the client's.
OtherData ==
  {[CommentData(<<>>, "c") EXCEPT !.content = Num(5)],
   [CommentData(<<>>, "c") EXCEPT !.filePath = Str("")],
   [CommentData(<<>>, "c") EXCEPT !.lineNumber = Str("1")],
   [CommentData(<<>>, "c") EXCEPT !.lineNumber = Undefined],
   [CommentData(<<>>, "c") EXCEPT !.lineNumber = Null],
   CommentData(<<"s1">>, "c")}

Requests ==
  {AddRequest(CommentData(<<>>, c)) : c \in {"c", " "}}
    \cup {AddRequest(d) : d \in OtherData}
    \cup {UpdateRequest(id, c) : id \in {"s1", "l1"}, c \in {"u", " "}}
    \cup {DeleteRequest(id) : id \in {"s1", "l1", "l2"}}
    \cup {ClearRequest}
    \cup {MigrateRequest(l) : l \in LocalLists}

\* A slot without a request.
FreeSlot ==
  [req |-> NoRequest, pc |-> "free", toSave |-> <<>>, fd |-> 0, installed |-> <<>>,
   error |-> ""]

\* No comment request was received.
NoStore ==
  /\ disk = [file |-> <<>>, temp |-> <<>>, inodes |-> 0]
  /\ reqs = [r \in 1..MaxInFlight |-> FreeSlot]
  /\ nextId = 1
  /\ received = 0
  /\ expected = {}
  /\ history = <<>>

(***************************************************************************)
(* useMigration: the client's migration of localStorage comments           *)
(*                                                                         *)
(* services/localStorage.ts defines no isMigrated, markMigrated or         *)
(* getForFolder; the three are taken here as a set of marked folders kept  *)
(* in localStorage and the stored comments of a folder.                    *)
(***************************************************************************)
MaxPending == 2

Folders == {"repo", "lib", "app"}

\* commentStorage.isMigrated(folderName)
isMigrated(marked, folder) == folder \in marked

\* commentStorage.markMigrated(folderName)
markMigrated(marked, folder) == marked \cup {folder}

\* commentStorage.getForFolder(folderName)
getForFolder(store, folder) == store[folder]

\* A test that looks at the mark only, not at the attempts of the session.
mustMigrateUnlessMarked(attempted, marked, folder) == ~isMigrated(marked, folder)

\* Lines 15 and 18: the two early returns of the effect.
mustMigrate(attempted, marked, folder) ==
  folder \notin attempted /\ ~isMigrated(marked, folder)

\* The hook is not mounted.
NoClient ==
  /\ folderName = <<>>
  /\ migrationAttempted = {}
  /\ migrated = {}
  /\ localStore = [f \in Folders |-> <<>>]
  /\ pending = [f \in Folders |-> 0]

(***************************************************************************)
(* The program: one call of parseDiff on a text                            *)
(***************************************************************************)
\* No call is under way: the frame variables hold nothing.
NoFrame ==
  /\ sourceDir = "/repos"
  /\ fileBlocks = <<>>
  /\ blockIdx = 1
  /\ lines = <<>>
  /\ lineIdx = 1
  /\ paths = [old |-> "", new |-> ""]
  /\ locals = [heap |-> <<>>, chunks |-> <<>>, currentChunk |-> 0,
               oldLineNum |-> 0, newLineNum |-> 0, additions |-> 0, deletions |-> 0,
               threw |-> FALSE]
  /\ calls = <<>>

Init ==
  /\ input \in Inputs
  /\ diffText = Render(input)
  /\ pc = "ready"
  /\ files = <<>>
  /\ NoFrame
  /\ NoGit
  /\ NoStore
  /\ NoClient

\* const files = this.parseDiff(fullDiff), as one step.
ParseDiffCall ==
  /\ pc = "ready"
  /\ LET r == parseDiff(diffText)
     IN  /\ pc' = IF r.threw THEN "threw" ELSE "returned"
         /\ files' = r.files
  /\ UNCHANGED <<input, diffText, frameVars>>
  /\ UNCHANGED <<gitVars, storeVars, clientVars>>

Next == ParseDiffCall

Spec == Init /\ [][Next]_vars

(***************************************************************************)
(* The program: calls of parseDiff one after the other, line by line       *)
(*                                                                         *)
(* The locals of parseDiff and parseFileBlock are the frame variables.     *)
(* They keep what the call before left in them until the code assigns      *)
(* them: the declarations of lines 217-218, 234 and 247-252.               *)
(***************************************************************************)
MaxCalls == 3

SourceDirs == {"/repos", "/work"}

OneHunk ==
  [head |-> PathHeader("f", "f"),
   body |-> <<HunkHeader(1, <<2>>, 1, <<3>>, ""), " k", "-o", "+n">>]

LinesBeforeHunk ==
  [head |-> PathHeader("o", "n"), body |-> <<"--- a/o", BadHunkHeader, "+n", "-o">>]

HunkTwice ==
  [head |-> PathHeader("f", "f"),
   body |-> <<HunkHeader(10, <<5>>, 12, <<>>, " fn"), "+n", BadHunkHeader, "+n">>]

NoPaths == [head |-> QuotedHeader, body |-> <<HunkHeader(0, <<0>>, 1, <<>>, ""), "+n">>]

CallInputs ==
  {[lead |-> "", segments |-> ss] :
     ss \in {<<OneHunk>>, <<LinesBeforeHunk>>, <<OneHunk, LinesBeforeHunk>>,
             <<HunkTwice>>, <<NoPaths>>}}

InitCalls ==
  /\ input = [lead |-> "", segments |-> <<>>]
  /\ diffText = ""
  /\ pc = "ready"
  /\ files = <<>>
  /\ NoFrame
  /\ NoGit
  /\ NoStore
  /\ NoClient

\* Lines 216-218: parseDiff is entered, on any instance and with any text.
EnterParseDiff ==
  /\ pc \in {"ready", "returned"}
  /\ Len(calls) < MaxCalls
  /\ \E dir \in SourceDirs, in \in CallInputs :
       /\ sourceDir' = dir
       /\ input' = in
       /\ diffText' = Render(in)
       /\ fileBlocks' = fileBlocksOf(Render(in))
  /\ files' = <<>>
  /\ blockIdx' = 1
  /\ pc' = "blocks"
  /\ UNCHANGED <<lines, lineIdx, paths, locals, calls>>
  /\ UNCHANGED <<gitVars, storeVars, clientVars>>

\* Lines 220-221 and 234-252: the next block is handed to parseFileBlock,
\* which returns null at once or declares its locals.
EnterFileBlock ==
  /\ pc = "blocks"
  /\ blockIdx <= Len(fileBlocks)
  /\ lines' = SplitLines(fileBlocks[blockIdx])
  /\ LET m == pathMatch(lines'[1])
     IN  IF m = <<>> \/ diffStartIndex(lines') = 0
         THEN /\ blockIdx' = blockIdx + 1
              /\ UNCHANGED <<pc, lineIdx, paths, locals>>
         ELSE /\ paths' = m[1]
              /\ locals' = initLocals
              /\ lineIdx' = diffStartIndex(lines')
              /\ pc' = "lines"
              /\ UNCHANGED blockIdx
  /\ UNCHANGED <<input, diffText, files, sourceDir, fileBlocks, calls>>
  /\ UNCHANGED <<gitVars, storeVars, clientVars>>

\* Lines 254-310: one line of the block.
ScanLine ==
  /\ pc = "lines"
  /\ lineIdx <= Len(lines)
  /\ locals' = lineStep(locals, lines[lineIdx])
  /\ lineIdx' = lineIdx + 1
  /\ pc' = IF locals'.threw THEN "threw" ELSE "lines"
  /\ UNCHANGED <<input, diffText, files, sourceDir, fileBlocks, blockIdx, lines, paths, calls>>
  /\ UNCHANGED <<gitVars, storeVars, clientVars>>

\* Lines 312-322 and 222-224: the last chunk is pushed, the file returned
\* and pushed to files.
LeaveFileBlock ==
  /\ pc = "lines"
  /\ lineIdx > Len(lines)
  /\ locals' = pushCurrentChunk(locals)
  /\ files' = Append(files, makeFile(paths, locals'))
  /\ blockIdx' = blockIdx + 1
  /\ pc' = "blocks"
  /\ UNCHANGED <<input, diffText, sourceDir, fileBlocks, lines, lineIdx, paths, calls>>
  /\ UNCHANGED <<gitVars, storeVars, clientVars>>

\* Line 227: return files.
ReturnFiles ==
  /\ pc = "blocks"
  /\ blockIdx > Len(fileBlocks)
  /\ pc' = "returned"
  /\ calls' = Append(calls, [sourceDir |-> sourceDir, text |-> diffText, files |-> files])
  /\ UNCHANGED <<input, diffText, files, sourceDir, fileBlocks, blockIdx, lines, lineIdx,
                 paths, locals>>
  /\ UNCHANGED <<gitVars, storeVars, clientVars>>

NextCalls ==
  \/ EnterParseDiff
  \/ EnterFileBlock
  \/ ScanLine
  \/ LeaveFileBlock
  \/ ReturnFiles

SpecCalls == InitCalls /\ [][NextCalls]_vars

(***************************************************************************)
(* The program: one call of getDiff on a repository                        *)
(***************************************************************************)
InitDiff ==
  /\ input = [lead |-> "", segments |-> <<>>]
  /\ diffText = ""
  /\ pc = "ready"
  /\ files = <<>>
  /\ NoFrame
  /\ tree \in Trees
  /\ fullDiff = ""
  /\ result = <<>>
  /\ NoFile
  /\ NoStore
  /\ NoClient

\* Lines 104-131: getDiff, as one step.
GetDiffCall ==
  /\ pc = "ready"
  /\ fullDiff' = fullDiffOf(tree)
  /\ IF trim(fullDiff') = ""
     THEN /\ result' = <<[diff |-> "", files |-> <<>>]>>
          /\ pc' = "returned"
          /\ UNCHANGED <<diffText, files>>
     ELSE LET r == parseDiff(fullDiff')
          IN  /\ diffText' = fullDiff'
              /\ files' = r.files
              /\ pc' = IF r.threw THEN "threw" ELSE "returned"
              /\ result' = IF r.threw THEN <<>> ELSE <<[diff |-> fullDiff', files |-> r.files]>>
  /\ UNCHANGED <<input, tree, frameVars, fileRequest, fileAnswer>>
  /\ UNCHANGED <<storeVars, clientVars>>

NextDiff == GetDiffCall

SpecDiff == InitDiff /\ [][NextDiff]_vars

(***************************************************************************)
(* The program: one call of getFileContent                                 *)
(***************************************************************************)
\* SOURCE_DIR is given without or with a slash at its end.
InitFile ==
  /\ input = [lead |-> "", segments |-> <<>>]
  /\ diffText = ""
  /\ pc = "ready"
  /\ files = <<>>
  /\ sourceDir \in {"/repos", "/repos/"}
  /\ fileBlocks = <<>>
  /\ blockIdx = 1
  /\ lines = <<>>
  /\ lineIdx = 1
  /\ paths = [old |-> "", new |-> ""]
  /\ locals = [heap |-> <<>>, chunks |-> <<>>, currentChunk |-> 0,
               oldLineNum |-> 0, newLineNum |-> 0, additions |-> 0, deletions |-> 0,
               threw |-> FALSE]
  /\ calls = <<>>
  /\ tree = [staged |-> "", unstaged |-> "", untracked |-> <<>>]
  /\ fullDiff = ""
  /\ result = <<>>
  /\ fileRequest \in [folderName : FolderNames, filePath : FilePaths]
  /\ fileAnswer = <<>>
  /\ NoStore
  /\ NoClient

\* Lines 136-152: getFileContent, as one step.
GetFileContentCall ==
  /\ pc = "ready"
  /\ fileAnswer' = <<getFileContent(sourceDir, fileRequest.folderName, fileRequest.filePath)>>
  /\ pc' = IF fileAnswer'[1].error = "" THEN "returned" ELSE "threw"
  /\ UNCHANGED <<input, diffText, files, frameVars, tree, fullDiff, result, fileRequest,
                 storeVars, clientVars>>

NextFile == GetFileContentCall

SpecFile == InitFile /\ [][NextFile]_vars

(***************************************************************************)
(* The program: comment requests handled one after the other               *)
(*                                                                         *)
(* Each route of index.ts with the CommentService method it calls is one   *)
(* step, from the request to the response.  Date.now() is the number of    *)
(* the request.                                                            *)
(***************************************************************************)
InitStore ==
  /\ input = [lead |-> "", segments |-> <<>>]
  /\ diffText = ""
  /\ pc = "ready"
  /\ files = <<>>
  /\ NoFrame
  /\ NoGit
  /\ NoStore
  /\ NoClient

\* A handler from its first line to its response.
Handle(req) ==
  LET now == received + 1
      bad == rejected(req)
      l == IF req.op = "clear" THEN [error |-> "", comments |-> <<>>] ELSE loadComments(disk)
      t == toSaveOf(req, l.comments, randomUUID(nextId), now)
      error == IF bad # "" THEN bad ELSE IF l.error # "" THEN l.error ELSE t.error
  IN  /\ received < MaxOps
      /\ received' = now
      /\ disk' = IF error = "" THEN saveComments(disk, t.toSave) ELSE disk
      /\ nextId' = IF req.op = "add" /\ error = "" THEN nextId + 1 ELSE nextId
      /\ history' = Append(history, [req |-> req, error |-> error,
                                     status |-> statusOf(req.op, error),
                                     loaded |-> bad = "" /\ req.op # "clear",
                                     saved |-> error = "",
                                     before |-> loadComments(disk).comments,
                                     after |-> loadComments(disk').comments])
      /\ UNCHANGED <<reqs, expected, callVars, frameVars, gitVars,
                 clientVars>>

\* index.ts 145-160, comments.ts 138-156.
AddCommentCall == \E req \in Requests : req.op = "add" /\ Handle(req)

\* index.ts 166-182, comments.ts 161-181.
UpdateCommentCall == \E req \in Requests : req.op = "update" /\ Handle(req)

\* index.ts 188-198, comments.ts 186-195.
DeleteCommentCall == \E req \in Requests : req.op = "delete" /\ Handle(req)

\* index.ts 204-213, comments.ts 200-202.
ClearCommentsCall == \E req \in Requests : req.op = "clear" /\ Handle(req)

\* index.ts 219-234, comments.ts 207-222.
MigrateCall == \E req \in Requests : req.op = "migrate" /\ Handle(req)

NextStore ==
  \/ AddCommentCall
  \/ UpdateCommentCall
  \/ DeleteCommentCall
  \/ ClearCommentsCall
  \/ MigrateCall

SpecStore == InitStore /\ [][NextStore]_vars

(***************************************************************************)
(* The program: comment requests handled at the same time                  *)
(*                                                                         *)
(* An async handler runs up to an `await` of the file system and goes on   *)
(* when that call has ended; handlers of other requests run in between.    *)
(* The steps are the file system calls: readFile (with the code up to      *)
(* writeFile), the open and the write of writeFile, rename, unlink.        *)
(***************************************************************************)
RaceRequests ==
  {AddRequest(CommentData(<<>>, "c")), UpdateRequest("s1", "u"), DeleteRequest("s1"),
   ClearRequest, MigrateRequest(<<Local("l1", "a")>>)}

\* index.ts 145-154, 166-175, 188-191, 204-207, 219-228; comments.ts 142,
\* 166-168: a request arrives and is checked; clearComments goes to
\* saveComments at once.
Receive(r) ==
  /\ reqs[r].pc = "free"
  /\ received < MaxRequests
  /\ \E req \in RaceRequests :
       reqs' = [reqs EXCEPT ![r] =
                  [FreeSlot EXCEPT !.req = req,
                                   !.error = rejected(req),
                                   !.pc = IF rejected(req) # "" THEN "failed"
                                          ELSE IF req.op = "clear" THEN "open"
                                          ELSE "load"]]
  /\ received' = received + 1
  /\ UNCHANGED <<disk, nextId, expected, history, callVars, frameVars, gitVars,
                 clientVars>>

\* comments.ts 94-96 and 144-152, 170-178, 187-192, 211-219: the file is
\* read and the list to save is made.
Load(r) ==
  /\ reqs[r].pc = "load"
  /\ LET l == loadComments(disk)
         t == toSaveOf(reqs[r].req, l.comments, randomUUID(nextId), received)
         error == IF l.error # "" THEN l.error ELSE t.error
     IN  /\ reqs' = [reqs EXCEPT ![r].pc = IF error # "" THEN "failed" ELSE "open",
                                 ![r].error = error,
                                 ![r].toSave = t.toSave]
         /\ nextId' = IF reqs[r].req.op = "add" /\ error = "" THEN nextId + 1 ELSE nextId
  /\ UNCHANGED <<disk, received, expected, history, callVars, frameVars, gitVars,
                 clientVars>>

\* comments.ts 122: writeFile opens the temp file.
OpenTemp(r) ==
  /\ reqs[r].pc = "open"
  /\ disk' = openTemp(disk)
  /\ reqs' = [reqs EXCEPT ![r].pc = "write", ![r].fd = disk'.temp[1].ino]
  /\ UNCHANGED <<nextId, received, expected, history, callVars, frameVars, gitVars,
                 clientVars>>

\* comments.ts 122: writeFile writes the text and closes the file.
WriteTemp(r) ==
  /\ reqs[r].pc = "write"
  /\ disk' = writeTemp(disk, reqs[r].fd, reqs[r].toSave)
  /\ reqs' = [reqs EXCEPT ![r].pc = "rename"]
  /\ UNCHANGED <<nextId, received, expected, history, callVars, frameVars, gitVars,
                 clientVars>>

\* comments.ts 123: rename; without a temp entry it fails and the catch of
\* 124-132 runs.  With one, saveComments and the method return.
Rename(r) ==
  /\ reqs[r].pc = "rename"
  /\ IF disk.temp = <<>>
     THEN /\ reqs' = [reqs EXCEPT ![r].pc = "unlink", ![r].error = "Failed to save comments"]
          /\ UNCHANGED <<disk, expected>>
     ELSE /\ disk' = renameTemp(disk)
          /\ reqs' = [reqs EXCEPT ![r].pc = "done", ![r].installed = disk.temp]
          /\ expected' =
               CASE reqs[r].req.op = "add" ->
                      expected \cup {reqs[r].toSave[Len(reqs[r].toSave)].id}
                 [] reqs[r].req.op = "delete" -> expected \ {reqs[r].req.commentId}
                 [] reqs[r].req.op = "clear" -> {}
                 [] OTHER -> expected
  /\ UNCHANGED <<nextId, received, history, callVars, frameVars, gitVars,
                 clientVars>>

\* comments.ts 126-131: the temp file is removed and the error thrown.
Unlink(r) ==
  /\ reqs[r].pc = "unlink"
  /\ disk' = unlinkTemp(disk)
  /\ reqs' = [reqs EXCEPT ![r].pc = "failed"]
  /\ UNCHANGED <<nextId, received, expected, history, callVars, frameVars, gitVars,
                 clientVars>>

\* index.ts 155-158 and the like: the response is sent.
Respond(r) ==
  /\ reqs[r].pc \in {"done", "failed"}
  /\ reqs' = [reqs EXCEPT ![r] = FreeSlot]
  /\ UNCHANGED <<disk, nextId, received, expected, history, callVars, frameVars, gitVars,
                 clientVars>>

NextRace ==
  \/ \E r \in 1..MaxInFlight : Receive(r)
  \/ \E r \in 1..MaxInFlight : Load(r)
  \/ \E r \in 1..MaxInFlight : OpenTemp(r)
  \/ \E r \in 1..MaxInFlight : WriteTemp(r)
  \/ \E r \in 1..MaxInFlight : Rename(r)
  \/ \E r \in 1..MaxInFlight : Unlink(r)
  \/ \E r \in 1..MaxInFlight : Respond(r)

SpecRace == InitStore /\ [][NextRace]_vars

(***************************************************************************)
(* The program: the useMigration hook of one mounted component             *)
(***************************************************************************)
\* The hook is mounted without a folder (line 9); localStorage holds what
\* earlier sessions left in it.
InitClient ==
  /\ input = [lead |-> "", segments |-> <<>>]
  /\ diffText = ""
  /\ pc = "ready"
  /\ files = <<>>
  /\ NoFrame
  /\ NoGit
  /\ NoStore
  /\ folderName = <<>>
  /\ migrationAttempted = {}
  /\ migrated \in SUBSET Folders
  /\ localStore \in [Folders -> {<<>>, <<Local("l1", "a")>>}]
  /\ pending = [f \in Folders |-> 0]

\* Lines 11-47: folderName changes and the effect runs.
SelectFolder(f) ==
  /\ folderName # f
  /\ folderName' = f
  /\ IF f = <<>> \/ ~mustMigrate(migrationAttempted, migrated, f[1])
     THEN UNCHANGED <<migrationAttempted, migrated, pending>>
     ELSE IF Len(getForFolder(localStore, f[1])) = 0
     THEN /\ migrated' = markMigrated(migrated, f[1])
          /\ migrationAttempted' = migrationAttempted \cup {f[1]}
          /\ UNCHANGED pending
     ELSE /\ pending[f[1]] < MaxPending
          /\ migrationAttempted' = migrationAttempted \cup {f[1]}
          /\ pending' = [pending EXCEPT ![f[1]] = @ + 1]
          /\ UNCHANGED migrated
  /\ UNCHANGED <<localStore, callVars, frameVars, gitVars, storeVars>>

\* Lines 35-41: the request is answered with success.
MigrateSucceeded(f) ==
  /\ pending[f] > 0
  /\ pending' = [pending EXCEPT ![f] = @ - 1]
  /\ migrated' = markMigrated(migrated, f)
  /\ UNCHANGED <<folderName, migrationAttempted, localStore, callVars, frameVars, gitVars,
                 storeVars>>

\* Lines 42-46: the request failed.
MigrateFailed(f) ==
  /\ pending[f] > 0
  /\ pending' = [pending EXCEPT ![f] = @ - 1]
  /\ migrationAttempted' = migrationAttempted \ {f}
  /\ UNCHANGED <<folderName, migrated, localStore, callVars, frameVars, gitVars, storeVars>>

NextClient ==
  \/ \E f \in {<<>>} \cup {<<g>> : g \in Folders} : SelectFolder(f)
  \/ \E f \in Folders : MigrateSucceeded(f)
  \/ \E f \in Folders : MigrateFailed(f)

SpecClient == InitClient /\ [][NextClient]_vars

(***************************************************************************)
(* Properties of the returned files                                        *)
(***************************************************************************)
Returned == pc = "returned"

\* Every chunk of every returned file, with its place.
ChunkPlaces ==
  UNION {{<<f, h>> : h \in 1..Len(files[f].chunks)} : f \in 1..Len(files)}

ChunkAt(p) == files[p[1]].chunks[p[2]]

LinesOfType(ls, types) == SelectSeq(ls, LAMBDA l : l.type \in types)

\* C1: in every returned hunk the k-th context-or-deletion line has
\* oldLineNumber = oldStart + k - 1 and the k-th context-or-addition line
\* has newLineNumber = newStart + k - 1, each hunk counting from its own
\* header's starts.
C1_LineNumbersFromStarts ==
  Returned =>
    \A p \in ChunkPlaces :
      LET c == ChunkAt(p)
          olds == LinesOfType(c.lines, {"context", "deletion"})
          news == LinesOfType(c.lines, {"context", "addition"})
      IN  /\ \A k \in 1..Len(olds) : olds[k].oldLineNumber = <<c.oldStart + k - 1>>
          /\ \A k \in 1..Len(news) : news[k].newLineNumber = <<c.newStart + k - 1>>

\* A file whose second hunk starts elsewhere than the first left off, both
\* with numbered lines on both sides.
C1_Witness ==
  /\ Returned
  /\ \E f \in 1..Len(files) :
       /\ Len(files[f].chunks) >= 2
       /\ LET c1 == files[f].chunks[1]
              c2 == files[f].chunks[2]
          IN  /\ c1.header # c2.header
              /\ Len(LinesOfType(c1.lines, {"context"})) >= 1
              /\ c2.oldStart # c1.oldStart + Len(LinesOfType(c1.lines, {"context", "deletion"}))
              /\ Len(LinesOfType(c2.lines, {"context"})) >= 1

\* C2: a context line has both numbers, an addition only the new one, a
\* deletion only the old one; no line has neither.
C2_NumbersByType ==
  Returned =>
    \A p \in ChunkPlaces :
      \A k \in 1..Len(ChunkAt(p).lines) :
        LET l == ChunkAt(p).lines[k]
        IN  /\ l.type \in {"context", "addition", "deletion"}
            /\ l.type = "context" => l.oldLineNumber # <<>> /\ l.newLineNumber # <<>>
            /\ l.type = "addition" => l.oldLineNumber = <<>> /\ l.newLineNumber # <<>>
            /\ l.type = "deletion" => l.oldLineNumber # <<>> /\ l.newLineNumber = <<>>
            /\ ~(l.oldLineNumber = <<>> /\ l.newLineNumber = <<>>)

\* A hunk that holds a line of each type.
C2_Witness ==
  /\ Returned
  /\ \E p \in ChunkPlaces :
       \A t \in {"context", "addition", "deletion"} :
         Len(LinesOfType(ChunkAt(p).lines, {t})) >= 1

RECURSIVE CountLines(_, _)
CountLines(chunks, type) ==
  IF chunks = <<>> THEN 0
  ELSE Len(LinesOfType(Head(chunks).lines, {type})) + CountLines(Tail(chunks), type)

\* C3: additions is the number of addition lines and deletions the number
\* of deletion lines, summed over the hunks of the file's hunk list.
C3_CountsMatchHunkLines ==
  Returned =>
    \A f \in 1..Len(files) :
      /\ files[f].additions = CountLines(files[f].chunks, "addition")
      /\ files[f].deletions = CountLines(files[f].chunks, "deletion")

\* C4: no returned file has an empty hunk list.
C4_NoEmptyHunkList ==
  Returned => \A f \in 1..Len(files) : files[f].chunks # <<>>

\* C5: on every text the evaluation of parseDiff ends, and it ends by
\* returning a sequence of files, never by throwing.
C5_NeverThrows ==
  /\ pc \in {"ready", "returned"}
  /\ ~parseDiff(diffText).threw
  /\ Returned => files \in Seq([path : STRING, oldPath : Seq(STRING),
                                additions : Nat, deletions : Nat,
                                chunks : Seq([oldStart : Nat, oldLines : Nat, newStart : Nat,
                                              newLines : Nat, header : STRING,
                                              lines : Seq([type : STRING, content : STRING,
                                                           oldLineNumber : Seq(Nat),
                                                           newLineNumber : Seq(Nat)])])])

\* A text with a marker line after an `@@` line that opened no hunk: the
\* line reaches the test of currentChunk with currentChunk null.
C5_Witness ==
  /\ Returned
  /\ \E s \in 1..Len(input.segments) :
       LET seg == input.segments[s]
       IN  /\ seg.head = PathHeader("f", "f")
           /\ Len(seg.body) >= 2
           /\ seg.body[1] = BadHunkHeader
           /\ seg.body[2] = "+n"

\* A first line of the form a/X b/Y, X and Y not empty.
PathForm(head) ==
  /\ StartsWith(head, "a/")
  /\ \E j \in 4..(Len(head) - 3) : SubSeq(head, j, j + 2) = " b/"

WithoutBadHeads(in) ==
  [in EXCEPT !.segments = SelectSeq(@, LAMBDA seg : PathForm(seg.head))]

\* C6: the segments whose first line is not of the form a/X b/Y add
\* nothing and disturb nothing: the text parses to the files of the text
\* without them.
C6_BadSegmentsVanish ==
  Returned => files = parseDiff(Render(WithoutBadHeads(input))).files

\* A bad segment that holds a hunk, between two segments that yield files.
C6_Witness ==
  /\ Returned
  /\ Len(input.segments) = 3
  /\ PathForm(input.segments[1].head)
  /\ ~PathForm(input.segments[2].head)
  /\ Len(input.segments[2].body) >= 2
  /\ PathForm(input.segments[3].head)
  /\ Len(files) = 2

\* Every hunk header the inputs write, with the numbers written in it.
HeaderTable ==
  {[header |-> HunkHeader(a, b, c, d, s), a |-> a, b |-> b, c |-> c, d |-> d] :
     a \in Starts, b \in Counts, c \in Starts, d \in Counts, s \in Sections}
    \cup {[header |-> HunkHeader(1, <<2>>, 1, <<3>>, ""),
           a |-> 1, b |-> <<2>>, c |-> 1, d |-> <<3>>]}

HeaderLines == {e.header : e \in HeaderTable}

MetadataLines == {"new file mode 100644", "--- a/f", "+++ b/f"}

IsBodyLine(line) ==
  \/ line \in HeaderLines
  \/ StartsWith(line, "+") \/ StartsWith(line, "-") \/ StartsWith(line, " ")
  \/ line = NoNewline

\* A valid single-file segment: the header, metadata lines, then a hunk
\* header and after it hunk headers and body lines.
ValidSegment(seg) ==
  /\ PathForm(seg.head)
  /\ \E i \in 1..Len(seg.body) :
       /\ seg.body[i] \in HeaderLines
       /\ \A j \in 1..(i - 1) : seg.body[j] \in MetadataLines
       /\ \A j \in (i + 1)..Len(seg.body) : IsBodyLine(seg.body[j])

AllValid == \A s \in 1..Len(input.segments) : ValidSegment(input.segments[s])

\* C7: N valid segments parse to N files, the i-th the file of the i-th
\* segment.
C7_OneFilePerSegmentInOrder ==
  Returned /\ AllValid =>
    /\ Len(files) = Len(input.segments)
    /\ \A i \in 1..Len(input.segments) :
         <<files[i]>> = parseDiff(RenderSegment(input.segments[i])).files

\* Three valid segments, the first and the last of different files.
C7_Witness ==
  /\ Returned
  /\ AllValid
  /\ Len(input.segments) = 3
  /\ Len(files) = 3
  /\ files[1] # files[3]

Written(count) == IF count = <<>> THEN 1 ELSE count[1]

\* C8: the hunk of a header @@ -a[,b] +c[,d] @@... has oldStart = a,
\* oldLines = b, newStart = c, newLines = d, a count left out being 1 and a
\* written count kept, 0 too; its header is the header line; and every such
\* header line of a segment with paths yields a hunk.
C8_HeaderFields ==
  Returned =>
    /\ \A p \in ChunkPlaces :
         \A e \in HeaderTable :
           ChunkAt(p).header = e.header =>
             /\ ChunkAt(p).oldStart = e.a
             /\ ChunkAt(p).oldLines = Written(e.b)
             /\ ChunkAt(p).newStart = e.c
             /\ ChunkAt(p).newLines = Written(e.d)
    /\ \A s \in 1..Len(input.segments) :
         \A i \in 1..Len(input.segments[s].body) :
           PathForm(input.segments[s].head) /\ input.segments[s].body[i] \in HeaderLines =>
             \E p \in ChunkPlaces : ChunkAt(p).header = input.segments[s].body[i]

\* A hunk whose header writes one count as 0 and leaves the other out.
C8_Witness ==
  /\ Returned
  /\ \E p \in ChunkPlaces :
       /\ ChunkAt(p).header = HunkHeader(10, <<0>>, 12, <<>>, " fn")
       /\ ChunkAt(p).oldLines = 0
       /\ ChunkAt(p).newLines = 1

\* C9: the file of a segment a/<old> b/<new> has path = <new>, and
\* oldPath = <old> exactly when <old> differs from <new>.
C9_PathsFromHeader ==
  Returned /\ Len(input.segments) = 1 /\ Len(files) = 1 =>
    \A old \in Paths, new \in Paths :
      input.segments[1].head = PathHeader(old, new) =>
        /\ files[1].path = new
        /\ files[1].oldPath = IF old # new THEN <<old>> ELSE <<>>

\* C10: calls of parseDiff with the same text return equal files, whatever
\* the instance and whatever was parsed in between; and the files of two
\* texts one after the other are the files of the one followed by the files
\* of the other: nothing is left from one call or one segment to the next.
C10_SameTextSameFiles ==
  \A i \in 1..Len(calls), j \in 1..Len(calls) :
    /\ calls[i].text = calls[j].text => calls[i].files = calls[j].files
    /\ \A k \in 1..Len(calls) :
         calls[k].text = calls[i].text \o calls[j].text =>
           calls[k].files = calls[i].files \o calls[j].files

\* The same text parsed again on another instance after another text whose
\* parse left counters and an open chunk behind.
C10_Witness ==
  /\ Len(calls) = 3
  /\ calls[1].text = calls[3].text
  /\ calls[1].sourceDir # calls[3].sourceDir
  /\ calls[2].text # calls[1].text
  /\ calls[1].files # <<>>
  /\ calls[2].files # <<>>
  /\ locals.additions > 0

\* Only white space, or nothing.
Blank(s) == \A i \in 1..Len(s) : IsWhiteSpace(Char(s, i))

\* C11: a text that is empty or only white space parses to no file, and
\* getDiff returns {diff: '', files: []} when the combined text is blank.
C11_BlankTextNoFiles ==
  /\ parseDiff("") = [threw |-> FALSE, files |-> <<>>]
  /\ Returned /\ Blank(fullDiff) =>
       /\ parseDiff(fullDiff) = [threw |-> FALSE, files |-> <<>>]
       /\ result = <<[diff |-> "", files |-> <<>>]>>

\* A repository whose only untracked files cannot be read and whose staged
\* text is white space: the combined text is blank, and not only "\n\n".
C11_Witness ==
  /\ Returned
  /\ Blank(fullDiff)
  /\ tree.staged # ""
  /\ tree.untracked # <<>>
  /\ result = <<[diff |-> "", files |-> <<>>]>>

IsMarked(line) == StartsWith(line, "+") \/ StartsWith(line, "-") \/ StartsWith(line, " ")

\* A line that reaches the classification by first character and has none
\* of the three markers.
Unmarked(line) == ~StartsWith(line, "@@") /\ ~IsMarked(line)

\* A hunk header came before the i-th line of the body.
HunkOpenAt(body, i) == \E j \in 1..(i - 1) : body[j] \in HeaderLines

Without(seq, i) == SubSeq(seq, 1, i - 1) \o SubSeq(seq, i + 1, Len(seq))

\* C12: inside an open hunk a line that is no `@@` line and begins with none
\* of `+`, `-`, space (the empty line too) has no effect: the files are the
\* files of the text without that line, so no Line is added, additions and
\* deletions are the same, and the lines after it are in the same hunk with
\* the same numbers.
C12_UnmarkedLineSkipped ==
  Returned /\ Len(input.segments) = 1 =>
    \A i \in 1..Len(input.segments[1].body) :
      Unmarked(input.segments[1].body[i]) /\ HunkOpenAt(input.segments[1].body, i) =>
        files = parseDiff(Render([input EXCEPT !.segments[1].body = Without(@, i)])).files

\* A hunk with an empty line between two numbered lines.
C12_Witness ==
  /\ Returned
  /\ Len(input.segments) = 1
  /\ input.segments[1].body = <<HunkHeader(1, <<2>>, 1, <<3>>, ""), " k", "", "+n">>
  /\ Len(files) = 1
  /\ Len(files[1].chunks) = 1
  /\ Len(files[1].chunks[1].lines) = 2
  /\ files[1].chunks[1].lines[2].newLineNumber = <<2>>

\* The repository holds nothing but one untracked file that can be read.
OneUntracked ==
  /\ Blank(tree.staged)
  /\ Blank(tree.unstaged)
  /\ Len(tree.untracked) = 1
  /\ tree.untracked[1].content # <<>>

\* C13: the diff written for a readable untracked file whose content splits
\* on "\n" into n pieces parses to one file with path = the file's path, no
\* oldPath, deletions = 0, additions = n and one hunk with oldStart 0,
\* oldLines 0, newStart 1, newLines n, whose lines are n additions numbered
\* 1..n with the pieces as content, in order.
C13_UntrackedIsPureAddition ==
  Returned /\ OneUntracked =>
    LET pieces == SplitLines(tree.untracked[1].content[1])
        n == Len(pieces)
    IN  /\ Len(files) = 1
        /\ files[1].path = tree.untracked[1].path
        /\ files[1].oldPath = <<>>
        /\ files[1].deletions = 0
        /\ files[1].additions = n
        /\ Len(files[1].chunks) = 1
        /\ files[1].chunks[1].oldStart = 0
        /\ files[1].chunks[1].oldLines = 0
        /\ files[1].chunks[1].newStart = 1
        /\ files[1].chunks[1].newLines = n
        /\ files[1].chunks[1].lines =
             [k \in 1..n |-> [type |-> "addition", content |-> pieces[k],
                              oldLineNumber |-> <<>>, newLineNumber |-> <<k>>]]

\* The list loadComments returns now.
Stored == loadComments(disk).comments

\* C14: every comment that addComment returned with success is in the
\* folder's stored list until a deleteComment for its id or a clearComments
\* succeeds, whatever requests run at the same time.
C14_AddedCommentsStay == \A id \in expected : HasId(Stored, id)

\* C15: the hunk list of a file holds one hunk for each line of its segment
\* that matches the header pattern, in the order of those lines, and no hunk
\* twice: the headers of the list are the matching header lines.
C15_OneHunkPerHeader ==
  Returned /\ Len(input.segments) = 1 /\ Len(files) = 1 =>
    [k \in 1..Len(files[1].chunks) |-> files[1].chunks[k].header]
      = SelectSeq(input.segments[1].body, LAMBDA line : line \in HeaderLines)

\* The place of the first hunk header of a body, past the end without one.
FirstHeader(body) ==
  LET at == {i \in 1..Len(body) : body[i] \in HeaderLines}
  IN  IF at = {} THEN Len(body) + 1 ELSE Min(at)

\* The body without the lines before its first hunk header, `@@` lines kept.
OpenedOnly(body) ==
  LET kept == {i \in 1..Len(body) : i >= FirstHeader(body) \/ StartsWith(body[i], "@@")}
  IN  [k \in 1..Cardinality(kept) |-> body[Nth(kept, k)]]

MarkedAfter(body, marker) ==
  Cardinality({i \in (FirstHeader(body) + 1)..Len(body) : StartsWith(body[i], marker)})

\* C16: the lines of a segment before its first hunk header (`index`, `---`,
\* `+++`, mode lines, the lines after a `@@` line that opened no hunk) have
\* no effect: the files are the files of the text without them, and
\* additions and deletions count the `+` and `-` lines after the first hunk
\* header only.
C16_LinesBeforeHunkIgnored ==
  Returned /\ Len(input.segments) = 1 =>
    /\ files = parseDiff(Render([input EXCEPT !.segments[1].body = OpenedOnly(@)])).files
    /\ Len(files) = 1 =>
         /\ files[1].additions = MarkedAfter(input.segments[1].body, "+")
         /\ files[1].deletions = MarkedAfter(input.segments[1].body, "-")

\* A `+` and a `-` line after a `@@` line that opened no hunk, then a hunk
\* with one addition.
C16_Witness ==
  /\ Returned
  /\ Len(input.segments) = 1
  /\ input.segments[1].body =
       <<BadHunkHeader, "+n", "-o", HunkHeader(1, <<2>>, 1, <<3>>, "")>>
  /\ Len(files) = 1
  /\ files[1].additions = 0
  /\ files[1].deletions = 0
  /\ Len(files[1].chunks) = 1
  /\ files[1].chunks[1].lines = <<>>

Marker(type) ==
  CASE type = "addition" -> "+" [] type = "deletion" -> "-" [] type = "context" -> " "

\* The place of the first hunk header after the i-th line, past the end
\* without one.
NextHeader(body, i) ==
  LET at == {j \in (i + 1)..Len(body) : body[j] \in HeaderLines}
  IN  IF at = {} THEN Len(body) + 1 ELSE Min(at)

\* The marked lines between the header at i and the next header.
HunkBody(body, i) == SelectSeq(SubSeq(body, i + 1, NextHeader(body, i) - 1), IsMarked)

\* C17: the lines of a hunk, each written as the marker of its type followed
\* by its content, are the marked source lines under the hunk's header, in
\* their order: content is the line without its first character.
C17_ContentIsLineWithoutMarker ==
  Returned /\ Len(input.segments) = 1 /\ Len(files) = 1 =>
    \A h \in 1..Len(files[1].chunks) :
      LET c == files[1].chunks[h]
      IN  \E i \in 1..Len(input.segments[1].body) :
            /\ input.segments[1].body[i] = c.header
            /\ [k \in 1..Len(c.lines) |-> Marker(c.lines[k].type) \o c.lines[k].content]
                 = HunkBody(input.segments[1].body, i)

\* An added line that begins with `+` after its marker and ends with a
\* blank, then a context line and an addition.
C17_Witness ==
  /\ Returned
  /\ Len(input.segments) = 1
  /\ Len(files) = 1
  /\ \E h \in 1..Len(files[1].chunks) :
       /\ Len(files[1].chunks[h].lines) = 3
       /\ files[1].chunks[h].lines[1].content = "+ x "
       /\ files[1].chunks[h].lines[2].type = "context"
       /\ files[1].chunks[h].lines[3].content = "n"

\* The list a request under way passes to saveComments.
Saving(r) == [comments |-> reqs[r].toSave, whole |-> TRUE]

\* C18: comments.json always holds a whole text, the one passed to some
\* saveComments call, and a saveComments call that returned without error
\* renamed a temp file that held its own list, also when saveComments calls
\* for the folder overlap.
C18_SaveIsAtomic ==
  /\ disk.file # <<>> => disk.file[1].whole
  /\ \A r \in 1..MaxInFlight :
       reqs[r].pc = "done" =>
         /\ reqs[r].installed[1].whole
         /\ reqs[r].installed[1].comments = reqs[r].toSave

\* The calls of migrateFromLocalStorage that ended without error.
Migrations ==
  {k \in 1..Len(history) : history[k].req.op = "migrate" /\ history[k].error = ""}

Ids(comments) == {comments[k].id : k \in 1..Len(comments)}

\* C19: after migrateFromLocalStorage the stored list is the list stored
\* before, unchanged and in its order, followed by the local comments whose
\* id was not stored before, in their order; no stored comment is replaced.
C19_MigrationKeepsStored ==
  \A k \in Migrations :
    LET before == history[k].before
        after == history[k].after
    IN  /\ Len(after) >= Len(before)
        /\ SubSeq(after, 1, Len(before)) = before
        /\ SubSeq(after, Len(before) + 1, Len(after))
             = SelectSeq(history[k].req.localComments, LAMBDA l : l.id \notin Ids(before))

\* A migration onto a store that holds one of the local comments with
\* another content, and not the other local comment.
C19_Witness ==
  \E k \in Migrations :
    /\ Len(history[k].before) = 1
    /\ history[k].before[1].id = "l1"
    /\ history[k].before[1].content = "u"
    /\ history[k].req.localComments = <<Local("l1", "a"), Local("l2", "b")>>
    /\ Len(history[k].after) = 2
    /\ history[k].after[1].content = "u"
    /\ history[k].after[2].id = "l2"

\* C20: a second migrateFromLocalStorage with the same local list, right
\* after the first, leaves the stored list as the first left it.
C20_MigrationIdempotent ==
  \A k \in Migrations :
    (k + 1 \in Migrations /\ history[k + 1].req = history[k].req) =>
      history[k + 1].after = history[k].after

\* Two migrations of the same two local comments one after the other, the
\* first of which stored both.
C20_Witness ==
  \E k \in Migrations :
    /\ k + 1 \in Migrations
    /\ history[k + 1].req = history[k].req
    /\ Len(history[k].req.localComments) = 2
    /\ Len(history[k].after) = Len(history[k].before) + 2
    /\ Len(history[k + 1].after) = Len(history[k].after)

Deletes == {k \in 1..Len(history) : history[k].req.op = "delete"}

\* C22: a deleteComment with an id that is not stored fails with 'Comment
\* not found', saves nothing, leaves the stored list as it was and is
\* answered with 404; one with a stored id leaves the stored comments with
\* another id, in their order, and no other.
C22_DeleteRemovesTheId ==
  \A k \in Deletes :
    LET h == history[k]
        hit == \E j \in 1..Len(h.before) : h.before[j].id = h.req.commentId
    IN  IF hit
        THEN /\ h.error = ""
             /\ h.status = 200
             /\ h.after = SelectSeq(h.before, LAMBDA c : c.id # h.req.commentId)
        ELSE /\ h.error = "Comment not found"
             /\ h.status = 404
             /\ ~h.saved
             /\ h.after = h.before

\* A delete of an id that is not stored, answered with 404 while the store
\* keeps its two comments, and then a delete of the first of the two.
C22_Witness ==
  /\ Len(history) = 3
  /\ history[2].req.op = "delete"
  /\ history[2].status = 404
  /\ Len(history[2].after) = 2
  /\ history[3].req.op = "delete"
  /\ history[3].req.commentId = "l1"
  /\ history[3].error = ""
  /\ Len(history[3].after) = 1
  /\ history[3].after[1].id = "l2"

Updates == {k \in 1..Len(history) : history[k].req.op = "update"}

\* C23: an updateComment with a blank content fails with 'Comment content is
\* required' and one with an id that is not stored with 'Comment not found',
\* and both leave the stored list as it was; any other leaves the list with
\* its length and order, with every comment but the first one with the id
\* as it was, and with that one changed in its content, which is the given
\* one, and its timestamp only.
C23_UpdateChangesContentOnly ==
  \A k \in Updates :
    LET h == history[k]
        hits == {j \in 1..Len(h.before) : h.before[j].id = h.req.commentId}
    IN  IF Blank(h.req.content)
        THEN h.error = "Comment content is required" /\ ~h.saved /\ h.after = h.before
        ELSE IF hits = {}
        THEN h.error = "Comment not found" /\ ~h.saved /\ h.after = h.before
        ELSE /\ h.error = ""
             /\ Len(h.after) = Len(h.before)
             /\ \A j \in 1..Len(h.before) :
                  IF j = Min(hits)
                  THEN /\ h.after[j].content = h.req.content
                       /\ h.after[j].id = h.before[j].id
                       /\ h.after[j].folderName = h.before[j].folderName
                       /\ h.after[j].filePath = h.before[j].filePath
                       /\ h.after[j].lineNumber = h.before[j].lineNumber
                  ELSE h.after[j] = h.before[j]

\* An update of the first of two stored comments, and then an update with
\* an id that is not stored.
C23_Witness ==
  /\ Len(history) = 3
  /\ history[2].req = UpdateRequest("l1", "u")
  /\ Len(history[2].before) = 2
  /\ history[2].error = ""
  /\ history[2].before[1].content = "a"
  /\ history[2].after[1].content = "u"
  /\ history[2].after[1].timestamp # history[2].before[1].timestamp
  /\ history[2].after[2].id = "l2"
  /\ history[3].req.op = "update"
  /\ history[3].error = "Comment not found"
  /\ Len(history[3].after) = 2

Adds == {k \in 1..Len(history) : history[k].req.op = "add"}

\* Comment data with a non-blank string for the content, a non-empty string
\* for the file path, and null or a number for the line number.
ValidData(data) ==
  /\ data.content.type = "string" /\ ~Blank(data.content.str)
  /\ data.filePath.type = "string" /\ data.filePath.str # ""
  /\ data.lineNumber = Null \/ data.lineNumber.type = "number"

\* C24: an addComment with invalid comment data fails without loading or
\* saving the stored list, which stays as it was; one with valid data
\* leaves the list that was stored followed by one comment, which carries
\* the data's content, file path and line number.
C24_AddValidatesFirst ==
  \A k \in Adds :
    LET h == history[k]
        n == Len(h.before)
    IN  IF ~ValidData(h.req.data)
        THEN h.error # "" /\ ~h.loaded /\ ~h.saved /\ h.after = h.before
        ELSE /\ h.error = ""
             /\ Len(h.after) = n + 1
             /\ SubSeq(h.after, 1, n) = h.before
             /\ h.after[n + 1].content = h.req.data.content.str
             /\ h.after[n + 1].filePath = h.req.data.filePath.str
             /\ h.after[n + 1].lineNumber
                  = IF h.req.data.lineNumber = Null THEN <<>> ELSE <<h.req.data.lineNumber.num>>

\* After a stored comment, an add with a string for the line number, which
\* is rejected, and then one with null for it, which is appended.
C24_Witness ==
  /\ Len(history) = 3
  /\ Len(history[2].before) = 1
  /\ history[2].req.op = "add"
  /\ history[2].error = "Line number must be a number or null"
  /\ history[3].req.op = "add"
  /\ history[3].req.data.lineNumber = Null
  /\ Len(history[3].after) = 2
  /\ history[3].after[2].lineNumber = <<>>

\* C26: after any sequence of addComment, updateComment, deleteComment and
\* clearComments calls on an empty store, no two stored comments have the
\* same id.
C26_IdsUnique ==
  (\A k \in 1..Len(history) : history[k].req.op # "migrate") =>
    \A i, j \in 1..Len(Stored) : Stored[i].id = Stored[j].id => i = j

\* No file is listed twice among the untracked ones.
UntrackedOnce ==
  \A i, j \in 1..Len(tree.untracked) :
    tree.untracked[i].path = tree.untracked[j].path => i = j

\* C27: the text getDiff parses is the staged diff, the diff against HEAD
\* and the untracked diffs in this order, and no two files of its result
\* have the same path.
C27_EachFileOnce ==
  (pc = "returned" /\ UntrackedOnce) =>
    /\ fullDiff = tree.staged \o "\n" \o tree.unstaged \o "\n"
                    \o generateUntrackedFilesDiff(tree.untracked)
    /\ \A i, j \in 1..Len(result[1].files) :
         result[1].files[i].path = result[1].files[j].path => i = j

\* The path is the directory or a path below it.
Within(p, dir) ==
  LET ps == resolved(<<>>, Segments(p))
      ds == resolved(<<>>, Segments(dir))
  IN  Len(ps) >= Len(ds) /\ SubSeq(ps, 1, Len(ds)) = ds

\* C25: a getFileContent that does not fail has read a file within
\* sourceDir/folderName, and a folder validateGitRepo accepted is within
\* sourceDir.
C25_ReadsWithinRepo ==
  fileAnswer # <<>> =>
    /\ fileAnswer[1].read # <<>> =>
         Within(fileAnswer[1].read[1], sourceDir \o "/" \o fileRequest.folderName)
    /\ fileAnswer[1].accepted => Within(fileAnswer[1].folderPath, sourceDir)

====
